---- MODULE Spec2Model ----
(***************************************************************************)
(* Voice-Blog-Creator: the workflow orchestrator (scripts/workflow.py) and *)
(* the direct --input/--output mode of the three stage scripts it spawns.  *)
(* One job (one folder label) is modelled; its files are the raw audio and *)
(* the three output artifacts processed.mp3, transcript.txt, blog_post.md. *)
(***************************************************************************)
EXTENDS Integers, Sequences, FiniteSets, TLC

\* Longest explicit --steps list that is enumerated (argparse nargs='+').
MaxStepsLen == 2
\* Number of numbered folders under the base path of a stage script.
MaxFolders == 2
\* Longest folder label given to --folder, in characters.
MaxLabelLen == 2
\* Number of orchestrator processes run side by side.
MaxJobs == 2

Stages == 1..3

\* State of one file: absent, created but not completely written, complete.
Contents == {"absent", "partial", "complete"}

\* What can go wrong while a stage's command runs.
\*   none         the script runs to its end
\*   op_error     the library / API call raises before the output is opened
\*   write_error  the write of the output raises after the file was created
\*   sigint       Ctrl-C before the output is opened
\*   sigint_write Ctrl-C while the output is being written
\*   spawn_error  subprocess.run itself raises (the child never starts)
\*   hang         the library / API call never answers
Faults ==
    {"none", "op_error", "write_error", "sigint", "sigint_write", "spawn_error",
     "hang"}

\* args.steps: None when --steps is omitted, else a non-empty list over 1..3.
None == << >>
StepsArgs ==
    {None} \cup UNION { [1..n -> Stages] : n \in 1..MaxStepsLen }

VARIABLES
    inputDir,     \* input/audio-file/{folder} exists
    rawAudio,     \* input/audio-file/{folder}/raw.mp3 exists
    outputDir,    \* output/{folder} exists
    art,          \* art[1] processed.mp3, art[2] transcript.txt, art[3] blog_post.md
    apiKey,       \* GEMINI_API_KEY is set
    pc,           \* position of the orchestrator process
    steps,        \* the steps list of the current run
    force,        \* self.force
    verbose,      \* self.verbose
    results,      \* results[k] of run_workflow; "unset" while the key is absent
    outcome,      \* what the log says of stage k: Skipped / Succeeded / Failed
    invoked,      \* number of run_command calls made for stage k in this run
    entered,      \* number of times step k was called in this run
    written,      \* the command of stage k touched its output in this run
    exitCode,     \* return value of main(); -1 while it has not returned
    reason,       \* why the run ended
    manifest,     \* the "Generated files" lines of the summary, or NoManifest
    startArt,     \* art when the run started
    startOutputDir, \* outputDir when the run started
    diag,         \* the error text of the failed command: "shown" to the
                  \* operator or "lost"; "none" while no command has failed
    prev          \* the preceding run, when it ran without --force and ended in
                  \* success, an operation error or a Ctrl-C during a command,
                  \* and nothing has touched the files or the credential
                  \* since; a run keeps the record only if it repeats the
                  \* same steps without --force

\* A stage script started by hand (preprocess_audio.py, gemini_transcribe.py,
\* gemini_blog_post.py), in direct or in legacy mode.
VARIABLES
    sPc,          \* position of the script: "idle", "loop", "done"
    sScript,      \* which script runs: 1, 2, 3 as the stages; 0: none
    sMode,        \* "direct" (--input/--output), "folder" (--folder N), "all"
    sForce,       \* args.force
    sIn,          \* sIn[f]: folder f holds the input file of the script
    sOut,         \* sOut[f]: the output file of the script in folder f
    sTodo,        \* folders_to_process, what is left of it
    sFailed,      \* the items whose processing raised an error in this run
    sExit         \* exit status of the script; -1 while it has not ended

\* Orchestrator runs side by side, each with its own --folder label, on one
\* filesystem.
VARIABLES
    present,      \* the paths of the files that exist
    jLabel,       \* jLabel[j]: the --folder argument of run j, or NoLabel
    jPc,          \* position of run j
    jOutcome,     \* jOutcome[j][k]: what the log of run j says of stage k
    jAlone        \* jAlone[j][k]: what it would say, were run j the only
                  \* one to touch the files found at its start

mainVars == << inputDir, rawAudio, outputDir, art, apiKey, pc, steps, force, verbose,
           results, outcome, invoked, entered, written, exitCode, reason,
           manifest, startArt, startOutputDir, diag, prev >>
scriptVars == << sPc, sScript, sMode, sForce, sIn, sOut, sTodo, sFailed, sExit >>
jobVars == << present, jLabel, jPc, jOutcome, jAlone >>
vars == << mainVars, scriptVars, jobVars >>

Folders == 1..MaxFolders
Jobs == 1..MaxJobs
\* The characters of a folder label, and the labels.
Chars == {"1", "/"}
Labels == UNION { [1..n -> Chars] : n \in 1..MaxLabelLen }
NoLabel == << >>

fsVars == << inputDir, rawAudio, outputDir, art, apiKey >>
runVars == << steps, force, verbose, results, outcome, invoked, entered, written,
              exitCode, reason, manifest, startArt, startOutputDir, diag >>

Exists(c) == c # "absent"

Range(s) == { s[i] : i \in DOMAIN s }

\* No preceding run is on record.
NoPrev == [kind |-> "none", stepSet |-> {}, failStage |-> 0]

\* No summary was printed (a printed one is a subset of Stages).
NoManifest == {0}

NoRun == [k \in Stages |-> 0]
Unset == [k \in Stages |-> "unset"]
NoOutcome == [k \in Stages |-> "none"]
NotWritten == [k \in Stages |-> FALSE]

TypeOK ==
    /\ inputDir \in BOOLEAN /\ rawAudio \in BOOLEAN /\ outputDir \in BOOLEAN
    /\ art \in [Stages -> Contents]
    /\ apiKey \in BOOLEAN
    /\ pc \in {"idle", "stage1", "stage2", "stage3", "summary", "blocked", "done"}
    /\ steps \in Seq(Stages)
    /\ force \in BOOLEAN /\ verbose \in BOOLEAN
    /\ results \in [Stages -> {"unset", "True", "False"}]
    /\ outcome \in [Stages -> {"none", "Skipped", "Succeeded", "Failed"}]
    /\ invoked \in [Stages -> 0..1]
    /\ entered \in [Stages -> 0..1]
    /\ written \in [Stages -> BOOLEAN]
    /\ exitCode \in {-1, 0, 1}
    /\ reason \in {"none", "missing input", "predecessor missing",
                   "operation error", "interrupt", "exception"}
    /\ manifest \in {NoManifest} \cup SUBSET Stages
    /\ startArt \in [Stages -> Contents]
    /\ startOutputDir \in BOOLEAN
    /\ diag \in {"none", "shown", "lost"}
    /\ sPc \in {"idle", "loop", "done"}
    /\ sScript \in 0..3
    /\ sMode \in {"none", "direct", "folder", "all"}
    /\ sForce \in BOOLEAN
    /\ sIn \in [Folders -> BOOLEAN]
    /\ sOut \in [Folders -> Contents]
    /\ sTodo \in Seq(Folders)
    /\ sFailed \in SUBSET Folders
    /\ sExit \in {-2, -1, 0, 1}
    /\ jLabel \in [Jobs -> Labels \cup {NoLabel}]
    /\ jPc \in [Jobs -> {"idle", "stage1", "stage2", "stage3", "done"}]
    /\ jOutcome \in [Jobs -> [Stages -> {"none", "Skipped", "Succeeded", "Failed"}]]
    /\ jAlone \in [Jobs -> [Stages -> {"none", "Skipped", "Succeeded", "Failed"}]]
    /\ prev.kind \in {"none", "success", "operation error", "interrupt"}
    /\ prev.stepSet \in SUBSET Stages
    /\ prev.failStage \in 0..3

Init ==
    /\ inputDir \in BOOLEAN
    /\ rawAudio \in BOOLEAN
    /\ rawAudio => inputDir
    /\ outputDir = FALSE
    /\ art = [k \in Stages |-> "absent"]
    /\ apiKey \in BOOLEAN
    /\ pc = "idle"
    /\ steps = << >>
    /\ force = FALSE
    /\ verbose = FALSE
    /\ results = Unset
    /\ outcome = NoOutcome
    /\ invoked = NoRun
    /\ entered = NoRun
    /\ written = NotWritten
    /\ exitCode = -1
    /\ reason = "none"
    /\ manifest = NoManifest
    /\ startArt = [k \in Stages |-> "absent"]
    /\ startOutputDir = FALSE
    /\ diag = "none"
    /\ prev = NoPrev
    /\ sPc = "idle"
    /\ sScript = 0
    /\ sMode = "none"
    /\ sForce = FALSE
    /\ sIn = [f \in Folders |-> FALSE]
    /\ sOut = [f \in Folders |-> "absent"]
    /\ sTodo = << >>
    /\ sFailed = {}
    /\ sExit = -1
    /\ present = {}
    /\ jLabel = [j \in Jobs |-> NoLabel]
    /\ jPc = [j \in Jobs |-> "idle"]
    /\ jOutcome = [j \in Jobs |-> NoOutcome]
    /\ jAlone = [j \in Jobs |-> NoOutcome]

(***************************************************************************)
(* The stage scripts in direct mode (--input X --output Y).  Each returns  *)
(* the exit status of the script and the state it leaves the output in.    *)
(***************************************************************************)

\* AudioPreprocessor.process: load_audio raises when the input is missing or
\* unreadable; audio.export opens the output first and then encodes into it.
AudioPreprocessor_process(fault, in, out) ==
    IF ~Exists(in) \/ fault = "op_error" THEN [raised |-> "Exception", out |-> out, wrote |-> FALSE]
    ELSE IF fault = "hang" THEN [raised |-> "never", out |-> out, wrote |-> FALSE]
    ELSE IF fault = "sigint" THEN [raised |-> "KeyboardInterrupt", out |-> out, wrote |-> FALSE]
    ELSE IF fault = "write_error" THEN [raised |-> "Exception", out |-> "partial", wrote |-> TRUE]
    ELSE IF fault = "sigint_write" THEN [raised |-> "KeyboardInterrupt", out |-> "partial",
          wrote |-> TRUE]
    ELSE [raised |-> "no", out |-> "complete", wrote |-> TRUE]

\* Variant: the error is printed and the script still returns 0.
preprocess_audio_main_swallow(fault, in, out, v) ==
    LET r == AudioPreprocessor_process(fault, in, out)
    IN  [rc  |-> IF r.raised \in {"no", "Exception"} THEN 0 ELSE -2,
         out |-> r.out, wrote |-> r.wrote, hung |-> r.raised = "never",
         stdout |-> r.raised = "Exception",
         stderr |-> r.raised = "Exception" /\ v]

\* preprocess_audio.py main(), direct mode: except Exception -> 1.
\* A KeyboardInterrupt is not an Exception: the script dies of it (status -2).
\* stdout / stderr: the script wrote the text of its error there; the message
\* is print()ed, the traceback goes to stderr and only with --verbose (v).
preprocess_audio_main(fault, in, out, v) ==
    LET r == AudioPreprocessor_process(fault, in, out)
    IN  [rc  |-> IF r.raised = "no" THEN 0
                 ELSE IF r.raised = "Exception" THEN 1 ELSE -2,
         out |-> r.out, wrote |-> r.wrote, hung |-> r.raised = "never",
         stdout |-> r.raised = "Exception",
         stderr |-> r.raised = "Exception" /\ v]

\* Variant: the constructor does not look at the credential.
Gemini_init_anykey(key) == "ok"

\* GeminiTranscriber.__init__ / GeminiBlogGenerator.__init__: the credential.
Gemini_init(key) == IF key THEN "ok" ELSE "ValueError"

\* generate_content: transcribe_audio passes request_options timeout=600,
\* generate_blog_post passes no timeout.
RequestTimeout(k) == k = 2

\* transcribe_audio / generate_blog_post: read the input, call the model,
\* then write_text the answer (create or truncate, then write).  A call that
\* gets no answer raises when it has a timeout and never returns otherwise.
Gemini_generate(fault, in, out, timeout) ==
    IF ~Exists(in) \/ fault = "op_error" THEN [raised |-> "Exception", out |-> out, wrote |-> FALSE]
    ELSE IF fault = "hang"
    THEN [raised |-> IF timeout THEN "Exception" ELSE "never", out |-> out,
          wrote |-> FALSE]
    ELSE IF fault = "sigint" THEN [raised |-> "KeyboardInterrupt", out |-> out, wrote |-> FALSE]
    ELSE IF fault = "write_error" THEN [raised |-> "Exception", out |-> "partial", wrote |-> TRUE]
    ELSE IF fault = "sigint_write" THEN [raised |-> "KeyboardInterrupt", out |-> "partial",
          wrote |-> TRUE]
    ELSE [raised |-> "no", out |-> "complete", wrote |-> TRUE]

\* gemini_transcribe.py / gemini_blog_post.py main(), direct mode.
gemini_main(fault, key, in, out, timeout, v) ==
    IF Gemini_init(key) = "ValueError"
    THEN [rc |-> 1, out |-> out, wrote |-> FALSE, hung |-> FALSE,
          stdout |-> TRUE, stderr |-> FALSE]
    ELSE LET r == Gemini_generate(fault, in, out, timeout)
         IN  [rc  |-> IF r.raised = "no" THEN 0
                      ELSE IF r.raised = "Exception" THEN 1 ELSE -2,
              out |-> r.out, wrote |-> r.wrote, hung |-> r.raised = "never",
              stdout |-> r.raised = "Exception",
              stderr |-> r.raised = "Exception" /\ v]

(***************************************************************************)
(* WorkflowOrchestrator                                                    *)
(***************************************************************************)

\* Variant: only the folder is validated, not the recording in it.
WorkflowOrchestrator_init_noraw ==
    IF ~inputDir THEN "ValueError" ELSE "ok"

\* __init__: the two validations; "ok" means the output directory is made.
WorkflowOrchestrator_init ==
    IF ~inputDir THEN "ValueError"
    ELSE IF ~rawAudio THEN "ValueError"
    ELSE "ok"

\* The file a stage reads.
Pred(k) == IF k = 1 THEN (IF rawAudio THEN "complete" ELSE "absent") ELSE art[k - 1]

\* The script a stage spawns, applied to the stage's input and output.
Script(k, fault) ==
    IF k = 1 THEN preprocess_audio_main(fault, Pred(1), art[1], verbose)
    ELSE gemini_main(fault, apiKey, Pred(k), art[k], RequestTimeout(k), verbose)

\* run_command, what the operator gets to see of the script's output: all of
\* it when verbose (the streams are inherited); otherwise both streams are
\* captured and, after a failure, stderr alone is printed.
Echo(v, r) == IF v THEN r.stdout \/ r.stderr ELSE r.stderr

\* run_command: subprocess.run (called without timeout), then the test of the
\* return code.  ret is what the call does: return True / False, raise, or
\* wait without end for a script that does not end ("Blocked").
run_command(k, fault) ==
    IF fault = "spawn_error"
    THEN [ret |-> "Exception", outcome |-> "none", reason |-> "exception",
          called |-> 1, out |-> art[k], wrote |-> FALSE, diag |-> "none"]
    ELSE LET r == Script(k, fault)
         IN  IF fault \in {"sigint", "sigint_write"}
             THEN [ret |-> "KeyboardInterrupt", outcome |-> "none",
                   reason |-> "interrupt", called |-> 1, out |-> r.out,
                   wrote |-> r.wrote, diag |-> "none"]
             ELSE IF r.hung
             THEN [ret |-> "Blocked", outcome |-> "none", reason |-> "none",
                   called |-> 1, out |-> r.out, wrote |-> r.wrote,
                   diag |-> "none"]
             ELSE IF r.rc # 0
             THEN [ret |-> "False", outcome |-> "Failed",
                   reason |-> "operation error", called |-> 1, out |-> r.out,
                   wrote |-> r.wrote,
                   diag |-> IF Echo(verbose, r) THEN "shown" ELSE "lost"]
             ELSE [ret |-> "True", outcome |-> "Succeeded", reason |-> "none",
                   called |-> 1, out |-> r.out, wrote |-> r.wrote,
                   diag |-> "none"]

\* Variant: an existing file never makes a step skip.
check_file_exists_never(file, f) == FALSE

\* Variant: a step is skipped whenever --force is not given.
check_file_exists_always(file, f) == ~f

\* Variant: the force flag is not consulted.
check_file_exists_noforce(file, f) == Exists(file)

\* check_file_exists: TRUE means "skip this step".
check_file_exists(file, f) ==
    IF Exists(file) THEN (IF f THEN FALSE ELSE TRUE) ELSE FALSE

\* Variant: the test for the output file opens it for writing.
Skip_truncates(k) ==
    [ret |-> "True", outcome |-> "Skipped", reason |-> "none", called |-> 0,
     out |-> "partial", wrote |-> FALSE, diag |-> "none"]

Skip(k) ==
    [ret |-> "True", outcome |-> "Skipped", reason |-> "none", called |-> 0,
     out |-> art[k], wrote |-> FALSE, diag |-> "none"]

PredecessorMissing(k) ==
    [ret |-> "False", outcome |-> "Failed", reason |-> "predecessor missing",
     called |-> 0, out |-> art[k], wrote |-> FALSE, diag |-> "none"]

step_1_preprocess_audio(fault) ==
    IF check_file_exists(art[1], force) THEN Skip(1)
    ELSE run_command(1, fault)

\* Variant: the skip test comes before the test of the processed audio.
step_2_transcribe_skipfirst(fault) ==
    IF check_file_exists(art[2], force) THEN Skip(2)
    ELSE IF ~Exists(art[1]) THEN PredecessorMissing(2)
    ELSE run_command(2, fault)

step_2_transcribe(fault) ==
    IF ~Exists(art[1]) THEN PredecessorMissing(2)
    ELSE IF check_file_exists(art[2], force) THEN Skip(2)
    ELSE run_command(2, fault)

\* Variant: the transcript is not tested before the command is run.
step_3_generate_blog_ungated(fault) ==
    IF check_file_exists(art[3], force) THEN Skip(3)
    ELSE run_command(3, fault)

step_3_generate_blog(fault) ==
    IF ~Exists(art[2]) THEN PredecessorMissing(3)
    ELSE IF check_file_exists(art[3], force) THEN Skip(3)
    ELSE run_command(3, fault)

Step(k, fault) ==
    CASE k = 1 -> step_1_preprocess_audio(fault)
      [] k = 2 -> step_2_transcribe(fault)
      [] k = 3 -> step_3_generate_blog(fault)

StagePc(k) == CASE k = 1 -> "stage1" [] k = 2 -> "stage2" [] k = 3 -> "stage3"
\* Variant: the block of step 3 stands before the block of step 2.
NextPc_swapped(k) == CASE k = 1 -> "stage3" [] k = 3 -> "stage2" [] k = 2 -> "summary"

NextPc(k) == CASE k = 1 -> "stage2" [] k = 2 -> "stage3" [] k = 3 -> "summary"

\* Variant: a step that returned False does not stop the workflow.
AfterStep_continue(k, ret) ==
    IF ret \in {"True", "False"} THEN NextPc(k)
    ELSE IF ret = "Blocked" THEN "blocked" ELSE "done"

\* run_workflow: "if not results[k]: return False"; a raise leaves as well.
AfterStep(k, ret) ==
    IF ret = "True" THEN NextPc(k)
    ELSE IF ret = "Blocked" THEN "blocked" ELSE "done"

\* Variant: only an escaped exception gives a non-zero status.
ExitStatus_zero(ret) == IF ret = "Exception" THEN 1 ELSE 0

\* main(): "return 0 if success else 1", and 1 from both except clauses.
ExitStatus(ret) == IF ret = "True" THEN 0 ELSE 1

\* "k in steps"
InSteps(k) == \E i \in DOMAIN steps : steps[i] = k

\* Variant: the constructor does not create the output directory.
mkdir_skipped(exists) == exists

\* output_dir.mkdir(parents=True, exist_ok=True): afterwards it exists.
mkdir(exists) == TRUE

\* main(): parse the arguments and construct the orchestrator.
Main(stepsArg, f, v) ==
    /\ pc = "idle"
    /\ steps' = IF stepsArg = None THEN << 1, 2, 3 >> ELSE stepsArg
    /\ force' = f
    /\ verbose' = v
    /\ startArt' = art
    /\ startOutputDir' = outputDir
    /\ results' = Unset
    /\ outcome' = NoOutcome
    /\ invoked' = NoRun
    /\ entered' = NoRun
    /\ written' = NotWritten
    /\ manifest' = NoManifest
    /\ diag' = "none"
    /\ IF WorkflowOrchestrator_init = "ValueError"
       THEN /\ pc' = "done"
            /\ exitCode' = 1
            /\ reason' = "missing input"
            /\ outputDir' = outputDir
       ELSE /\ pc' = "stage1"
            /\ exitCode' = -1
            /\ reason' = "none"
            /\ outputDir' = mkdir(outputDir)
    /\ prev' = IF ~f /\ prev.stepSet = Range(steps') THEN prev ELSE NoPrev
    /\ UNCHANGED << inputDir, rawAudio, art, apiKey, scriptVars, jobVars >>

\* run_workflow, the block of stage k: "if k in steps: results[k] = step_k()".
RunStage(k) ==
    /\ pc = StagePc(k)
    /\ IF ~InSteps(k)
       THEN /\ pc' = NextPc(k)
            /\ UNCHANGED << art, results, outcome, invoked, entered, written,
                            exitCode, reason, diag >>
       ELSE \E fault \in Faults :
            LET r == Step(k, fault)
            IN  /\ entered' = [entered EXCEPT ![k] = @ + 1]
                /\ invoked' = [invoked EXCEPT ![k] = @ + r.called]
                /\ art' = [art EXCEPT ![k] = r.out]
                /\ written' = [written EXCEPT ![k] = r.wrote]
                /\ outcome' = [outcome EXCEPT ![k] = r.outcome]
                /\ results' = [results EXCEPT ![k] =
                                 IF r.ret \in {"True", "False"} THEN r.ret ELSE @]
                /\ reason' = r.reason
                /\ diag' = r.diag
                /\ pc' = AfterStep(k, r.ret)
                /\ exitCode' = IF AfterStep(k, r.ret) = "done"
                               THEN ExitStatus(r.ret) ELSE exitCode
    /\ UNCHANGED << inputDir, rawAudio, outputDir, apiKey, steps, force, verbose,
                    manifest, startArt, startOutputDir, prev, scriptVars, jobVars >>

RunStage1 == RunStage(1)
RunStage2 == RunStage(2)
RunStage3 == RunStage(3)

\* Variant: only the artifacts written by this run are listed.
Manifest_thisrun == { k \in Stages : written[k] }

\* run_workflow, the summary: one line per artifact that exists; return True.
Manifest == { k \in Stages : Exists(art[k]) }

Summary ==
    /\ pc = "summary"
    /\ manifest' = Manifest
    /\ exitCode' = ExitStatus("True")
    /\ pc' = "done"
    /\ UNCHANGED << fsVars, steps, force, verbose, results, outcome, invoked,
                    entered, written, reason, startArt, startOutputDir, diag,
                    prev, scriptVars, jobVars >>

\* main(): except KeyboardInterrupt, between two commands or while waiting
\* for a command that does not end.
Interrupt ==
    /\ pc \in {"stage1", "stage2", "stage3", "summary", "blocked"}
    /\ pc' = "done"
    /\ exitCode' = ExitStatus("KeyboardInterrupt")
    /\ reason' = "interrupt"
    /\ UNCHANGED << fsVars, steps, force, verbose, results, outcome, invoked,
                    entered, written, manifest, startArt, startOutputDir, diag,
                    prev, scriptVars, jobVars >>

FailStage ==
    IF \E k \in Stages : outcome[k] = "Failed"
    THEN CHOOSE k \in Stages : outcome[k] = "Failed"
    ELSE 0

\* The stage whose command was running when Ctrl-C arrived (0: none was).
InterruptedStage ==
    IF \E k \in Stages : invoked[k] = 1 /\ outcome[k] = "none"
    THEN CHOOSE k \in Stages : invoked[k] = 1 /\ outcome[k] = "none"
    ELSE 0

\* sys.exit(main()): the process ends; what remains is the filesystem.
Exit ==
    /\ pc = "done"
    /\ pc' = "idle"
    /\ prev' = IF force THEN NoPrev
               ELSE IF exitCode = 0
               THEN [kind |-> "success", stepSet |-> Range(steps), failStage |-> 0]
               ELSE IF reason = "operation error"
               THEN [kind |-> "operation error", stepSet |-> Range(steps),
                     failStage |-> FailStage]
               ELSE IF reason = "interrupt" /\ InterruptedStage # 0
               THEN [kind |-> "interrupt", stepSet |-> Range(steps),
                     failStage |-> InterruptedStage]
               ELSE NoPrev
    /\ steps' = << >>
    /\ force' = FALSE
    /\ verbose' = FALSE
    /\ results' = Unset
    /\ outcome' = NoOutcome
    /\ invoked' = NoRun
    /\ entered' = NoRun
    /\ written' = NotWritten
    /\ exitCode' = -1
    /\ reason' = "none"
    /\ manifest' = NoManifest
    /\ startArt' = art
    /\ startOutputDir' = outputDir
    /\ diag' = "none"
    /\ UNCHANGED << fsVars, scriptVars, jobVars >>

(***************************************************************************)
(* The operator, between two runs.                                         *)
(***************************************************************************)

\* The credential is put into, or taken out of, the environment / .env file.
SetCredential ==
    /\ pc = "idle"
    /\ apiKey' = ~apiKey
    /\ prev' = NoPrev
    /\ UNCHANGED << inputDir, rawAudio, outputDir, art, pc, runVars, scriptVars, jobVars >>

\* "Place raw.mp3 in input/audio-file/1/".
PlaceRaw ==
    /\ pc = "idle"
    /\ ~rawAudio
    /\ inputDir' = TRUE
    /\ rawAudio' = TRUE
    /\ prev' = NoPrev
    /\ UNCHANGED << outputDir, art, apiKey, pc, runVars, scriptVars, jobVars >>

\* The recording, or its whole folder, is removed.
RemoveRaw ==
    /\ pc = "idle"
    /\ rawAudio
    /\ rawAudio' = FALSE
    /\ inputDir' \in BOOLEAN
    /\ prev' = NoPrev
    /\ UNCHANGED << outputDir, art, apiKey, pc, runVars, scriptVars, jobVars >>

\* An output file is deleted by hand.
DeleteArtifact(k) ==
    /\ pc = "idle"
    /\ Exists(art[k])
    /\ art' = [art EXCEPT ![k] = "absent"]
    /\ startArt' = art'
    /\ prev' = NoPrev
    /\ UNCHANGED << inputDir, rawAudio, outputDir, apiKey, pc, steps, force,
                    verbose, results, outcome, invoked, entered, written,
                    exitCode, reason, manifest, startOutputDir, diag, scriptVars, jobVars >>

Start == \E s \in StepsArgs, f \in BOOLEAN, v \in BOOLEAN : Main(s, f, v)
Delete == \E k \in Stages : DeleteArtifact(k)

Next ==
    \/ Start
    \/ RunStage1
    \/ RunStage2
    \/ RunStage3
    \/ Summary
    \/ Interrupt
    \/ Exit
    \/ SetCredential
    \/ PlaceRaw
    \/ RemoveRaw
    \/ Delete

Spec == Init /\ [][Next]_vars

(***************************************************************************)
(* The stage scripts run by hand: main() of preprocess_audio.py,           *)
(* gemini_transcribe.py and gemini_blog_post.py, direct and legacy mode.   *)
(***************************************************************************)

\* What can go wrong while one item is processed.
ScriptFaults == {"none", "op_error", "write_error", "sigint"}

InputOf(f) == IF sIn[f] THEN "complete" ELSE "absent"

\* find_audio_folders / find_transcript_folders: the numbered folders that
\* hold the input file of the script.
find_folders == { f \in Folders : sIn[f] }

\* sorted(base.iterdir(), key=int(name)): the folders in increasing order.
RECURSIVE Sorted(_)
Sorted(S) ==
    IF S = {} THEN << >>
    ELSE LET m == CHOOSE x \in S : \A y \in S : x <= y
         IN  << m >> \o Sorted(S \ {m})

\* main(), legacy mode, up to the loop: which folders are selected, or the
\* status main() returns at once.
folders_to_process(k, mode, sel, key) ==
    IF find_folders = {} THEN [rc |-> 1, todo |-> << >>]
    ELSE IF mode = "folder" /\ sel \notin find_folders THEN [rc |-> 1, todo |-> << >>]
    ELSE IF k > 1 /\ Gemini_init(key) = "ValueError" THEN [rc |-> 1, todo |-> << >>]
    ELSE [rc |-> -1,
          todo |-> IF mode = "all" THEN Sorted(find_folders) ELSE << sel >>]

\* The processing call of script k on one item.
Process(k, fault, in, out) ==
    IF k = 1 THEN AudioPreprocessor_process(fault, in, out)
    ELSE Gemini_generate(fault, in, out, RequestTimeout(k))

\* main(), direct mode, of script k on the files of folder sel.
DirectMain(k, fault, sel, v) ==
    IF k = 1 THEN preprocess_audio_main(fault, InputOf(sel), sOut[sel], v)
    ELSE gemini_main(fault, apiKey, InputOf(sel), sOut[sel], RequestTimeout(k), v)

\* main() of script k is started with --input/--output, --folder or --all.
ScriptMain(k, mode, sel, f) ==
    /\ sPc = "idle"
    /\ sScript' = k
    /\ sMode' = mode
    /\ sForce' = f
    /\ IF mode = "direct"
       THEN \E fault \in ScriptFaults, v \in BOOLEAN :
            LET r == DirectMain(k, fault, sel, v)
            IN  /\ sOut' = [sOut EXCEPT ![sel] = r.out]
                /\ sFailed' = IF r.rc = 1 THEN {sel} ELSE {}
                /\ sExit' = r.rc
                /\ sPc' = "done"
                /\ sTodo' = << >>
       ELSE LET s == folders_to_process(k, mode, sel, apiKey)
            IN  /\ sTodo' = s.todo
                /\ sExit' = s.rc
                /\ sPc' = IF s.rc = -1 THEN "loop" ELSE "done"
                /\ sFailed' = {}
                /\ sOut' = sOut
    /\ UNCHANGED << mainVars, jobVars, sIn >>

\* main(), legacy mode, the value returned after the loop.
LegacyReturn(failed) == 0

\* main(), legacy mode, one iteration of "for folder in folders_to_process"
\* and, when the list is exhausted, the return.  answer: the reply to the
\* "Overwrite? (y/n)" prompt of preprocess_audio.py.
ScriptLoop ==
    /\ sPc = "loop"
    /\ IF sTodo = << >>
       THEN /\ sExit' = LegacyReturn(sFailed)
            /\ sPc' = "done"
            /\ UNCHANGED << sOut, sTodo, sFailed >>
       ELSE LET folder == Head(sTodo)
            IN  \E fault \in ScriptFaults, answer \in BOOLEAN :
                IF Exists(sOut[folder]) /\ ~sForce /\ (sScript > 1 \/ ~answer)
                THEN /\ sTodo' = Tail(sTodo)
                     /\ UNCHANGED << sOut, sFailed, sExit, sPc >>
                ELSE LET r == Process(sScript, fault, InputOf(folder), sOut[folder])
                     IN  /\ sOut' = [sOut EXCEPT ![folder] = r.out]
                         /\ IF r.raised = "KeyboardInterrupt"
                            THEN /\ sExit' = -2
                                 /\ sPc' = "done"
                                 /\ UNCHANGED << sTodo, sFailed >>
                            ELSE /\ sTodo' = Tail(sTodo)
                                 /\ sFailed' = IF r.raised = "Exception"
                                               THEN sFailed \cup {folder}
                                               ELSE sFailed
                                 /\ UNCHANGED << sExit, sPc >>
    /\ UNCHANGED << mainVars, jobVars, sScript, sMode, sForce, sIn >>

\* sys.exit(main()): the script has ended.
ScriptExit ==
    /\ sPc = "done"
    /\ sPc' = "idle"
    /\ sScript' = 0
    /\ sMode' = "none"
    /\ sForce' = FALSE
    /\ sTodo' = << >>
    /\ sFailed' = {}
    /\ sExit' = -1
    /\ UNCHANGED << mainVars, jobVars, sIn, sOut >>

\* Between two runs a numbered folder gets its input file, or loses it.
ScriptPlace(f) ==
    /\ sPc = "idle"
    /\ sIn' = [sIn EXCEPT ![f] = ~@]
    /\ UNCHANGED << mainVars, jobVars, sPc, sScript, sMode, sForce, sOut, sTodo, sFailed,
                    sExit >>

ScriptStart ==
    \E k \in Stages, mode \in {"direct", "folder", "all"}, sel \in Folders,
       f \in BOOLEAN : ScriptMain(k, mode, sel, f)
ScriptPlaceInput == \E f \in Folders : ScriptPlace(f)

ScriptNext ==
    \/ ScriptStart
    \/ ScriptLoop
    \/ ScriptExit
    \/ ScriptPlaceInput
    \/ SetCredential

ScriptSpec == Init /\ [][ScriptNext]_vars

(***************************************************************************)
(* Two runs of workflow.py side by side.  Each run does all three steps    *)
(* without --force, and its commands succeed.                              *)
(***************************************************************************)

\* Path(label).parts: the names between the slashes; empty names (a doubled
\* or a trailing slash) are dropped.  cur is the name being read.
RECURSIVE Parts(_, _)
Parts(label, cur) ==
    IF label = << >> THEN (IF cur = << >> THEN << >> ELSE << cur >>)
    ELSE IF Head(label) = "/"
    THEN (IF cur = << >> THEN << >> ELSE << cur >>) \o Parts(Tail(label), << >>)
    ELSE Parts(Tail(label), Append(cur, Head(label)))

\* PROJECT_ROOT, as the names of an absolute path.
PROJECT_ROOT == << << "project" >> >>

\* base / label of pathlib, as the file system resolves it: a label that
\* begins with a slash is absolute and replaces the base.
Join(base, label) ==
    IF Head(label) = "/" THEN Parts(label, << >>) ELSE base \o Parts(label, << >>)

input_dir(label) == Join(PROJECT_ROOT \o << << "input" >>, << "audio-file" >> >>, label)
output_dir(label) == Join(PROJECT_ROOT \o << << "output" >> >>, label)

FileName(k) ==
    CASE k = 0 -> << "raw.mp3" >>
      [] k = 1 -> << "processed.mp3" >>
      [] k = 2 -> << "transcript.txt" >>
      [] k = 3 -> << "blog_post.md" >>

\* self.raw_audio (k = 0), self.processed_audio, self.transcript, self.blog_post.
FileOf(label, k) ==
    Append(IF k = 0 THEN input_dir(label) ELSE output_dir(label), FileName(k))

\* Every path a run with this label reads or writes.
JobPaths(label) ==
    {input_dir(label), output_dir(label)} \cup { FileOf(label, k) : k \in 0..3 }

At(path) == IF path \in present THEN "complete" ELSE "absent"

\* The outcome of stage k for a run that is alone with the files fs.
Alone(label, fs) ==
    [k \in Stages |-> IF FileOf(label, k) \in fs THEN "Skipped" ELSE "Succeeded"]

\* main() of run j with --folder label: the constructor validates the input.
JobMain(j, label) ==
    /\ jPc[j] = "idle"
    /\ jLabel' = [jLabel EXCEPT ![j] = label]
    /\ jOutcome' = [jOutcome EXCEPT ![j] = NoOutcome]
    /\ IF FileOf(label, 0) \notin present
       THEN /\ jPc' = [jPc EXCEPT ![j] = "done"]
            /\ jAlone' = [jAlone EXCEPT ![j] = NoOutcome]
       ELSE /\ jPc' = [jPc EXCEPT ![j] = "stage1"]
            /\ jAlone' = [jAlone EXCEPT ![j] = Alone(label, present)]
    /\ UNCHANGED << mainVars, scriptVars, present >>

JobStageOf(j) ==
    CASE jPc[j] = "stage1" -> 1 [] jPc[j] = "stage2" -> 2 [] jPc[j] = "stage3" -> 3
      [] OTHER -> 0

\* step_k of run j: predecessor test, completion checker, command.
JobStep(j) ==
    /\ jPc[j] \in {"stage1", "stage2", "stage3"}
    /\ LET k == JobStageOf(j)
           out == FileOf(jLabel[j], k)
           res == IF k > 1 /\ ~Exists(At(FileOf(jLabel[j], k - 1))) THEN "Failed"
                  ELSE IF check_file_exists(At(out), FALSE) THEN "Skipped"
                  ELSE "Succeeded"
       IN  /\ jOutcome' = [jOutcome EXCEPT ![j][k] = res]
           /\ present' = IF res = "Succeeded" THEN present \cup {out} ELSE present
           /\ jPc' = [jPc EXCEPT ![j] = IF res = "Failed" \/ k = 3 THEN "done"
                                        ELSE StagePc(k + 1)]
    /\ UNCHANGED << mainVars, scriptVars, jLabel, jAlone >>

\* sys.exit(main()) of run j.
JobExit(j) ==
    /\ jPc[j] = "done"
    /\ jPc' = [jPc EXCEPT ![j] = "idle"]
    /\ jLabel' = [jLabel EXCEPT ![j] = NoLabel]
    /\ jOutcome' = [jOutcome EXCEPT ![j] = NoOutcome]
    /\ jAlone' = [jAlone EXCEPT ![j] = NoOutcome]
    /\ UNCHANGED << mainVars, scriptVars, present >>

\* A recording is placed for a label, while no run is under way.
JobPlaceRaw(label) ==
    /\ \A j \in Jobs : jPc[j] = "idle"
    /\ FileOf(label, 0) \notin present
    /\ Cardinality({ l \in Labels : FileOf(l, 0) \in present }) < MaxJobs
    /\ present' = present \cup {FileOf(label, 0)}
    /\ UNCHANGED << mainVars, scriptVars, jLabel, jPc, jOutcome, jAlone >>

JobStart == \E j \in Jobs, label \in Labels : JobMain(j, label)
JobRun == \E j \in Jobs : JobStep(j)
JobEnd == \E j \in Jobs : JobExit(j)
JobPlace == \E label \in Labels : JobPlaceRaw(label)

JobsNext ==
    \/ JobStart
    \/ JobRun
    \/ JobEnd
    \/ JobPlace

JobsSpec == Init /\ [][JobsNext]_vars

(***************************************************************************)
(* Properties                                                              *)
(***************************************************************************)

Running == pc # "idle"
Done == pc = "done"
Ok(k) == outcome[k] \in {"Skipped", "Succeeded"}
AllRequestedOk == \A k \in Stages : InSteps(k) => Ok(k)
\* RunStage(k) calls step k in this step of the behaviour.
Enters(k) == pc = StagePc(k) /\ entered'[k] = entered[k] + 1

\* The run is a full, unforced run that directly follows a successful full,
\* unforced run.
Rerun ==
    /\ Running
    /\ prev.kind = "success"
    /\ prev.stepSet = Stages
    /\ Range(steps) = Stages
    /\ ~force

\* C1: idempotence.  A run of steps {1,2,3} without overwrite that follows a
\* successful run of steps {1,2,3} without overwrite never invokes a command
\* and never changes an artifact; unless the user interrupts it, it ends with
\* every stage Skipped and exit code 0.
C1_Idempotence ==
    Rerun =>
        /\ \A k \in Stages :
              /\ invoked[k] = 0
              /\ ~written[k]
              /\ art[k] = startArt[k]
              /\ outcome[k] \in {"none", "Skipped"}
        /\ (Done /\ reason # "interrupt") =>
              /\ \A k \in Stages : outcome[k] = "Skipped"
              /\ exitCode = 0

C1_Witness ==
    /\ Rerun
    /\ Done
    /\ exitCode = 0
    /\ \A k \in Stages : outcome[k] = "Skipped" /\ art[k] = "complete"

\* C2: fail-fast.  Once a stage is Failed the run is over with exit code 1:
\* the stage was entered once, its command was called at most once, and no
\* later stage was entered or had its command called.
C2_FailFast ==
    \A k \in Stages :
        outcome[k] = "Failed" =>
            /\ Done
            /\ exitCode = 1
            /\ entered[k] = 1
            /\ invoked[k] <= 1
            /\ \A j \in Stages :
                  j > k => entered[j] = 0 /\ invoked[j] = 0 /\ outcome[j] = "none"

C2_Witness ==
    /\ Done
    /\ outcome[1] = "Failed"
    /\ invoked[1] = 1
    /\ InSteps(2)
    /\ InSteps(3)
    /\ Exists(art[1])

\* C3: predecessor gating.  A command is called only when the file the stage
\* reads exists; stage 2 or 3 entered without that file ends Failed with
\* "predecessor missing", no command called and no file changed, with or
\* without overwrite; and only requested stages are ever entered.
C3_PredecessorGating ==
    [][\A k \in Stages :
          /\ invoked'[k] > invoked[k] => Exists(Pred(k))
          /\ entered'[k] > entered[k] => InSteps(k)
          /\ (Enters(k) /\ ~Exists(Pred(k))) =>
                /\ outcome'[k] = "Failed"
                /\ reason' = "predecessor missing"
                /\ pc' = "done"
                /\ invoked' = invoked
                /\ art' = art
      ]_vars

C3_Witness ==
    /\ Done
    /\ force
    /\ Range(steps) = {3}
    /\ ~Exists(art[2])
    /\ Exists(art[1])
    /\ outcome[3] = "Failed"
    /\ reason = "predecessor missing"
    /\ invoked[3] = 0
    /\ entered = << 0, 0, 1 >>

\* C4 (as stated): on entering any requested stage whose output exists, with
\* overwrite off, the stage is Skipped and the run moves on to the next
\* stage, whether or not the stage's input exists.
C4_SkipFirst ==
    [][\A k \in Stages :
          (Enters(k) /\ Exists(art[k]) /\ ~force) =>
              outcome'[k] = "Skipped" /\ pc' = NextPc(k)
      ]_vars

\* C4 (amended): stage 1 is Skipped when its output exists and overwrite is
\* off.  Stages 2 and 3 test their input first: with output present and
\* overwrite off they are Skipped only if the input exists, and otherwise end
\* Failed with "predecessor missing"; in neither case is a command called or
\* a file changed.
C4_SkipAfterPredecessor ==
    [][\A k \in Stages :
          (Enters(k) /\ Exists(art[k]) /\ ~force) =>
              /\ invoked' = invoked
              /\ art' = art
              /\ IF k = 1 \/ Exists(art[k - 1])
                 THEN outcome'[k] = "Skipped" /\ pc' = NextPc(k)
                 ELSE /\ outcome'[k] = "Failed"
                      /\ reason' = "predecessor missing"
                      /\ pc' = "done"
      ]_vars

C4_Witness ==
    /\ Done
    /\ ~force
    /\ InSteps(2)
    /\ Exists(art[2])
    /\ ~Exists(art[1])
    /\ outcome[2] = "Failed"
    /\ reason = "predecessor missing"
    /\ invoked[2] = 0

\* C5: overwrite.  With overwrite on, a stage that is entered while its input
\* exists is never Skipped, whatever is at its output path: its command is
\* called, once (no command is called twice in a run), and when the stage
\* Succeeded the output is a complete file written by this run.
C5_Overwrite ==
    /\ [](\A k \in Stages : invoked[k] <= 1)
    /\ [][\A k \in Stages :
             (Enters(k) /\ force /\ Exists(Pred(k))) =>
                 /\ outcome'[k] # "Skipped"
                 /\ invoked[k] = 0
                 /\ invoked'[k] = 1
                 /\ outcome'[k] = "Succeeded" =>
                        art'[k] = "complete" /\ written'[k]
         ]_vars

C5_Witness ==
    /\ force
    /\ \E k \in Stages :
          /\ Exists(startArt[k])
          /\ outcome[k] = "Succeeded"
          /\ invoked[k] = 1
          /\ written[k]
          /\ art[k] = "complete"

\* C6: a run whose input folder or raw audio is missing is over at once with
\* exit code 1: no stage entered, no command called, no artifact changed and
\* the output directory as it was (not created when it did not exist).
C6_InitFailure ==
    (Running /\ (~inputDir \/ ~rawAudio)) =>
        /\ Done
        /\ exitCode = 1
        /\ reason = "missing input"
        /\ entered = NoRun
        /\ invoked = NoRun
        /\ outcome = NoOutcome
        /\ art = startArt
        /\ outputDir = startOutputDir

C6_Witness ==
    /\ Done
    /\ inputDir
    /\ ~rawAudio
    /\ ~outputDir
    /\ exitCode = 1
    /\ entered = NoRun

\* C7 (as stated): with the input present and the credential missing, a run
\* of steps {1,2,3} ends with exit code 1 and without a single command
\* having been called.
C7_ConfigBeforeStages ==
    (Done /\ ~apiKey /\ inputDir /\ rawAudio /\ Range(steps) = Stages) =>
        /\ exitCode = 1
        /\ \A k \in Stages : invoked[k] = 0

\* C7 (amended): the orchestrator does not look at the credential; it is the
\* command of the Transcribe or Compose stage that reports it.  With the
\* credential missing, a run that calls such a command ends there with exit
\* code 1: the stage is Failed with an operation error (unless the call was
\* interrupted or could not be made), its output is not written and no later
\* stage is entered.  Stages before it, Preprocess included, have run or
\* were skipped as usual.
C7_MissingCredential ==
    \A k \in {2, 3} :
        (~apiKey /\ invoked[k] = 1) =>
            /\ Done
            /\ exitCode = 1
            /\ ~written[k]
            /\ art[k] = startArt[k]
            /\ reason \in {"operation error", "interrupt", "exception"}
            /\ reason = "operation error" <=> outcome[k] = "Failed"
            /\ outcome[k] \in {"Failed", "none"}
            /\ \A j \in Stages : j > k => entered[j] = 0
            /\ \A j \in Stages : (j < k /\ InSteps(j)) => Ok(j)

C7_Witness ==
    /\ Done
    /\ ~apiKey
    /\ Range(steps) = Stages
    /\ invoked[1] = 1
    /\ outcome[1] = "Succeeded"
    /\ written[1]
    /\ invoked[2] = 1
    /\ outcome[2] = "Failed"
    /\ reason = "operation error"
    /\ exitCode = 1
    /\ entered[3] = 0

\* C8: exit code.  A finished run has exit code 0 or 1.  It is 0 exactly when
\* every requested stage ended Skipped or Succeeded and the run was neither
\* interrupted nor left by an exception; it is 1 when the input is missing,
\* when a stage is Failed, when an exception escaped and when the user
\* interrupted the run.
C8_ExitCode ==
    Done =>
        /\ exitCode \in {0, 1}
        /\ exitCode = 0 <=>
              (AllRequestedOk /\ reason \notin {"interrupt", "exception"})
        /\ reason \in {"missing input", "interrupt", "exception"} => exitCode = 1
        /\ (\E k \in Stages : outcome[k] = "Failed") => exitCode = 1
        /\ (~inputDir \/ ~rawAudio) => exitCode = 1

C8_Witness ==
    /\ Done
    /\ exitCode = 1
    /\ reason = "interrupt"
    /\ outcome[1] = "Succeeded"
    /\ InSteps(2)
    /\ invoked[2] = 1
    /\ outcome[2] = "none"

\* C9: manifest.  A run that ends with exit code 0 has listed exactly the
\* output artifacts that exist, whichever run wrote them; after a successful
\* run of steps {1,2,3} that found no output artifact, these are all three.
\* A run that ends with exit code 1 has listed nothing.
C9_Manifest ==
    Done =>
        /\ exitCode = 0 => manifest = { k \in Stages : Exists(art[k]) }
        /\ (exitCode = 0 /\ Range(steps) = Stages
              /\ \A k \in Stages : startArt[k] = "absent") => manifest = Stages
        /\ exitCode = 1 => manifest = NoManifest

C9_Witness ==
    /\ Done
    /\ exitCode = 0
    /\ Range(steps) = {3}
    /\ outcome[3] = "Succeeded"
    /\ ~written[1]
    /\ ~written[2]
    /\ manifest = Stages

\* The run repeats, without overwrite, the steps of the run before it, which
\* had stopped at the failed command of stage k.
Resumes(k) ==
    /\ Running
    /\ ~force
    /\ prev.kind = "operation error"
    /\ prev.failStage = k
    /\ prev.stepSet = Range(steps)

\* C10: resume.  Such a run does not skip stage k; when none of its commands
\* fails and nobody interrupts it, it has skipped the requested stages before
\* k whose output exists, has called the command of stage k and of every
\* later requested stage exactly once, and ends with exit code 0.
C10_Resume ==
    \A k \in Stages :
        Resumes(k) =>
            /\ outcome[k] # "Skipped"
            /\ (Done /\ reason \notin {"operation error", "interrupt", "exception"}) =>
                  /\ exitCode = 0
                  /\ invoked[k] = 1
                  /\ \A j \in Stages : (j > k /\ InSteps(j)) => invoked[j] = 1
                  /\ \A j \in Stages :
                        (j < k /\ InSteps(j) /\ Exists(startArt[j])) =>
                            outcome[j] = "Skipped"

\* The run follows, without overwrite, a run of the same steps that the user
\* interrupted while the command of stage k was running.
AfterInterrupt(k) ==
    /\ Running
    /\ ~force
    /\ prev.kind = "interrupt"
    /\ prev.failStage = k

\* C11: interrupt safety.  The run after an interrupted one never marks the
\* interrupted stage Skipped because of a truncated file at its output path.
C11_InterruptSafety ==
    \A k \in Stages :
        AfterInterrupt(k) => ~(outcome[k] = "Skipped" /\ art[k] = "partial")

\* C12: bounded operations.  Every command the orchestrator has called has
\* ended, by itself or by a timeout, and has made its stage Succeeded or
\* Failed (unless the call was interrupted or could not be made): no run is
\* left waiting for an operation that does not answer.
C12_BoundedOperations ==
    \A k \in Stages :
        (invoked[k] = 1 /\ reason \notin {"interrupt", "exception"}) =>
            outcome[k] \in {"Succeeded", "Failed"}

\* C13: success implies output.  A stage is Succeeded only when its command
\* was called, returned status 0 and left a completely written output file;
\* so when a run ends with exit code 0 the output artifact of every requested
\* stage exists.
C13_SuccessImpliesOutput ==
    /\ \A k \in Stages :
          outcome[k] = "Succeeded" =>
              /\ invoked[k] = 1
              /\ results[k] = "True"
              /\ written[k]
              /\ art[k] = "complete"
    /\ (Done /\ exitCode = 0) =>
          \A k \in Stages : InSteps(k) => Exists(art[k])

C13_Witness ==
    /\ Done
    /\ exitCode = 0
    /\ outcome[1] = "Skipped"
    /\ outcome[2] = "Succeeded"
    /\ outcome[3] = "Succeeded"
    /\ \A k \in Stages : Exists(art[k])

\* C14: failure leaves no output.  When a run has ended because the command
\* of stage k failed, there is no file at the output path of stage k,
\* whatever was there before and with or without overwrite.
C14_FailureLeavesNoOutput ==
    \A k \in Stages :
        (Done /\ outcome[k] = "Failed" /\ reason = "operation error") =>
            ~Exists(art[k])

\* C15: diagnostics.  Whenever a stage is Failed because its command failed,
\* the error text the command produced has been shown to the operator, in
\* verbose and in non-verbose mode.
C15_DiagnosticsSurfaced ==
    \A k \in Stages :
        (outcome[k] = "Failed" /\ reason = "operation error") => diag = "shown"

\* C16: no stage script swallows its own failure.  In direct and in legacy
\* mode alike, a script that has ended after the processing of one of its
\* selected items failed has exit code 1.
C16_NoSwallowedFailure ==
    (sPc = "done" /\ sFailed # {}) => sExit = 1

\* C17: the completion checker.  Whenever a step consults it (step 1 always,
\* steps 2 and 3 once their predecessor is there), the step is skipped if and
\* only if its output file exists and --force is not given, in each of the
\* four combinations; a skip runs no command and leaves every file, the
\* output directory and the credential as they were.
C17_CompletionChecker ==
    [][\A k \in Stages :
          (Enters(k) /\ (k = 1 \/ Exists(art[k - 1]))) =>
              /\ (outcome'[k] = "Skipped") <=> (Exists(art[k]) /\ ~force)
              /\ outcome'[k] = "Skipped" =>
                     /\ UNCHANGED fsVars
                     /\ invoked'[k] = 0
                     /\ results'[k] = "True"]_vars

\* Both answers in one run without --force: step 1 was skipped over its
\* existing file, which is as it was, and step 2 has run for want of a
\* transcript.
C17_Witness ==
    /\ ~force
    /\ Exists(startArt[1])
    /\ outcome[1] = "Skipped"
    /\ ~Exists(startArt[2])
    /\ outcome[2] = "Succeeded"
    /\ invoked = << 0, 1, 0 >>
    /\ art[1] = startArt[1]

\* C18: fixed stage order.  Whatever the steps argument (any order, with
\* repetitions), a stage is entered only if it was requested, at most once in
\* a run, before every stage with a higher number, and only when every stage
\* entered before it has ended Skipped or Succeeded.
C18_FixedOrder ==
    [][\A k \in Stages :
          Enters(k) =>
              /\ InSteps(k)
              /\ entered[k] = 0
              /\ \A j \in Stages : j > k => entered[j] = 0
              /\ \A j \in Stages : (j < k /\ entered[j] > 0) => Ok(j)]_vars

\* Steps given in decreasing order: stage 1 and then stage 2 have been
\* entered, once each.
C18_Witness ==
    /\ steps = << 2, 1 >>
    /\ entered = << 1, 1, 0 >>
    /\ outcome[1] = "Succeeded"
    /\ outcome[2] = "Succeeded"

\* C19: the output directory.  From the moment the input validation of a run
\* has succeeded, in every state of the run up to its end, in success or in
\* failure, the output directory exists; and no step of the program removes
\* an output directory that exists.
C19_OutputDirLifecycle ==
    [][/\ (pc' # "idle" /\ reason' # "missing input") => outputDir'
       /\ outputDir => outputDir']_vars

\* A run that found no output directory has created it and ended Failed.
C19_Witness ==
    /\ Done
    /\ ~startOutputDir
    /\ outputDir
    /\ exitCode = 1
    /\ \E k \in Stages : outcome[k] = "Failed"

\* C20: independent jobs.  When two runs with different folder labels have
\* both gone through their stages and ended, the paths of the one and the paths of the other have nothing
\* in common, and each run reports for every stage what it would have
\* reported had it been alone with the files it found at its start.
C20_IndependentJobs ==
    \A a, b \in Jobs :
        (/\ a # b
         /\ jLabel[a] # jLabel[b]
         /\ jPc[a] = "done" /\ jOutcome[a][3] # "none"
         /\ jPc[b] = "done" /\ jOutcome[b][3] # "none") =>
            /\ JobPaths(jLabel[a]) \cap JobPaths(jLabel[b]) = {}
            /\ jOutcome[a] = jAlone[a]

\* C21: the frame of a run.  While a run is under way no step touches the raw
\* audio or its folder; a step changes an output file only if it is the file
\* of a requested stage whose command that step has run; and in every state
\* of the run the output file of each stage that was not requested or was
\* Skipped is as it was when the run started, with --force as without.
C21_Frame ==
    [][/\ pc # "idle" =>
            /\ UNCHANGED << rawAudio, inputDir >>
            /\ \A k \in Stages :
                   art'[k] # art[k] =>
                       /\ InSteps(k)
                       /\ pc = StagePc(k)
                       /\ invoked'[k] = 1
                       /\ outcome'[k] # "Skipped"
       /\ pc' # "idle" =>
            \A k \in Stages :
                (\/ ~(\E i \in DOMAIN steps' : steps'[i] = k)
                 \/ outcome'[k] = "Skipped") => art'[k] = startArt'[k]]_vars

\* --steps 3 --force over three existing files: the blog post, truncated
\* before, has been written anew; processed audio and transcript are as
\* they were.
C21_Witness ==
    /\ Done
    /\ steps = << 3 >>
    /\ force
    /\ startArt = << "complete", "complete", "partial" >>
    /\ art = << "complete", "complete", "complete" >>
    /\ outcome[3] = "Succeeded"
    /\ rawAudio

====
